---------------------------- MODULE Spec2Model ----------------------------
(***************************************************************************)
(* Vizro-AI: the chart pipeline of VizroAI (_vizro_ai.py), its bounded     *)
(* debug retry loop (_debug_helper, vizro_ai/utils/helper.py) and the      *)
(* dashboard state graph (dashboard/graph/code_generation.py).             *)
(*                                                                         *)
(* Text is modelled as a sequence of tokens: a piece of generated code is  *)
(* the one-token text <<c>>, and concatenation of texts is \o, so that a   *)
(* prefix test (str.startswith) is a test on the leading tokens.           *)
(***************************************************************************)
EXTENDS Integers, Sequences, FiniteSets, TLC

VARIABLES
    model,                \* instance id -> model name, or None before __init__
    components_instances, \* instance id -> (component class -> component)
    pipeline_manager_llm, \* VizroAI.pipeline_manager.llm (class attribute)
    pc,                   \* position of the single control thread
    self,                 \* the instance the running call belongs to
    entry,                \* the public operation that is running
    explain,              \* argument explain
    max_debug_retry,      \* argument max_debug_retry
    embed,                \* argument embed
    model_arg,            \* __init__: argument model
    llm_model,            \* __init__: the object _get_llm_model returned
    last_constructed,     \* the instance whose __init__ completed last
    chart_types,          \* output of chart_type_pipeline.run
    plot_args,            \* chart_types handed to plot_pipeline.run
    custom_chart_code,    \* output of plot_pipeline.run
    dbg_code,             \* _debug_helper: code_string (current candidate)
    dbg_budget,           \* _debug_helper: max_debug_retry parameter
    fix_calls,            \* fix-oracle calls made by this run
    candidates,           \* the codes the fix oracle returned, in order
    validated_code_dict,  \* result of _debug_helper
    output_dict,          \* result of _run_plot_tasks
    disp_args,            \* arguments the display step was given
    exception,            \* exception in flight / raised to the caller
    exc_msg,              \* its message text
    ret,                  \* value returned to the caller
    trace,                \* steps invoked by this call, in order
    stage_llm,            \* llm each step of trace ran with
    g_at,                 \* dashboard graph: node to run next
    g_visited,            \* nodes this run has executed, in order
    g_exc,                \* exception that ended the run
    messages0,            \* message history the run was invoked with
    dfs0,                 \* dfs argument the run was invoked with
    df_metadata0,         \* df_metadata the run was invoked with
    current_df_names,     \* _store_df_info: names the oracle returned, in order
    messages,             \* GraphState.messages
    dfs,                  \* GraphState.dfs
    df_metadata,          \* GraphState.df_metadata
    dashboard_plan,       \* GraphState.dashboard_plan
    dashboard,            \* GraphState.dashboard
    cc_alive,             \* a CapturedCallable has been constructed
    cc_bound,             \* CapturedCallable.__bound_arguments
    cc_unbound,           \* CapturedCallable.__unbound_arguments (parameter names)
    cc_op,                \* the last operation on the CapturedCallable
    cc_args,              \* its positional arguments
    cc_kwargs,            \* its keyword arguments
    cc_key,               \* arg_name of __getitem__ / __setitem__
    cc_exc,               \* the exception it raised
    cc_ran,               \* whether it ran the captured function
    cc_ran_with,          \* the keyword arguments the function ran with
    cc_ret,               \* the value __getitem__ returned
    config0,              \* the object the caller built, as it was built
    captured_callable_config, \* that object now
    pj_calls,             \* validations of the object so far
    pj_exc,               \* exception the last _parse_json raised
    pj_msg,               \* its message
    pj_ret                \* value the last _parse_json returned

inst_vars == <<model, components_instances, pipeline_manager_llm, last_constructed>>
init_vars == <<model_arg, llm_model>>
call_vars == <<self, entry, explain, max_debug_retry, embed, init_vars>>
task_vars == <<chart_types, plot_args, custom_chart_code>>
dbg_vars  == <<dbg_code, dbg_budget, fix_calls, candidates, validated_code_dict>>
out_vars  == <<output_dict, disp_args, exception, exc_msg, ret>>
log_vars  == <<trace, stage_llm>>
plot_vars == <<inst_vars, pc, call_vars, task_vars, dbg_vars, out_vars, log_vars>>
gstate_vars == <<messages, dfs, df_metadata, dashboard_plan, dashboard>>
ginput_vars == <<messages0, dfs0, df_metadata0>>
graph_vars == <<g_at, g_visited, g_exc, ginput_vars, current_df_names, gstate_vars>>
cc_obj_vars == <<cc_alive, cc_bound, cc_unbound>>
cc_op_vars == <<cc_op, cc_args, cc_kwargs, cc_key, cc_exc, cc_ran, cc_ran_with, cc_ret>>
cc_vars == <<cc_obj_vars, cc_op_vars>>
pj_vars == <<config0, captured_callable_config, pj_calls, pj_exc, pj_msg, pj_ret>>
vars == <<plot_vars, graph_vars, cc_vars, pj_vars>>

---------------------------------------------------------------------------
(* Bounds of the model *)

MaxRetry == 3

(* Program constants *)

DefaultMaxDebugRetry == 3

None == "None"
DEFAULT_MODEL == "gpt-3.5-turbo"
DEFAULT_TEMPERATURE == 0
Sentinel == "Failed to debug code"
DebugFailurePrefix == "Chart creation failed. Retry debugging has reached maximum limit."
_return_all_text == FALSE

Instances == {"A", "B"}
(* PREDEFINED_MODELS: model name -> wrapper class (langchain_anthropic     *)
(* importable).                                                            *)
PREDEFINED_MODELS ==
    ("gpt-3.5-turbo" :> "ChatOpenAI") @@ ("gpt-4o" :> "ChatOpenAI") @@
    ("claude-3-haiku-20240307" :> "ChatAnthropic")

(* Values of the model argument: None, a string, or a ChatOpenAI object    *)
(* the caller built.                                                       *)
NoModelArg == [kind |-> "NoneType", model_name |-> "", temperature |-> 0]
StrArg(name) == [kind |-> "str", model_name |-> name, temperature |-> 0]
ChatOpenAIArg == [kind |-> "ChatOpenAI", model_name |-> "gpt-3.5-turbo", temperature |-> 1]
ModelArgs ==
    {NoModelArg, ChatOpenAIArg} \cup
    {StrArg(name) : name \in {"", "claude-3-haiku-20240307", "no-such-model"}}
NoConfig == [kind |-> "NoneType", items |-> <<>>]
NoLlm == [wrapper |-> None, model_name |-> None, temperature |-> 0, made_by |-> None]
GetDebugger == "GetDebugger"
GetCodeExplanation == "GetCodeExplanation"
ChartTypes == {"bar", "line"}
GoodTokens == {"ok_a"}
BadTokens == {"err_a", "err_b"}
Codes == {<<t>> : t \in GoodTokens \cup BadTokens}
Insights == {"insight"}
Explanations == {"explanation"}

---------------------------------------------------------------------------
(* Text helpers *)

StartsWith(s, p) == Len(s) >= Len(p) /\ SubSeq(s, 1, Len(p)) = p

Contains(s, sub) ==
    \E k \in 0..(Len(s) - Len(sub)) : SubSeq(s, k + 1, k + Len(sub)) = sub

NoDict == [debug_status |-> FALSE, code_string |-> <<>>]
NoOutput == [business_insights |-> None, code_explanation |-> None, code_string |-> <<>>]
NoRet == [type |-> "NoneType", text |-> <<>>]
NoDisp == [fn |-> None, code |-> <<>>, biz_insights |-> None, code_explain |-> None]

AtRest == pc \in {"idle", "done", "raised"}

ResetRun ==
    /\ chart_types' = None
    /\ plot_args' = None
    /\ custom_chart_code' = <<>>
    /\ dbg_code' = <<>>
    /\ dbg_budget' = 0
    /\ fix_calls' = 0
    /\ candidates' = <<>>
    /\ validated_code_dict' = NoDict
    /\ output_dict' = NoOutput
    /\ disp_args' = NoDisp
    /\ ret' = NoRet
    /\ trace' = <<>>
    /\ stage_llm' = <<>>

ResetCall ==
    /\ ResetRun
    /\ exception' = None
    /\ exc_msg' = <<>>
    /\ model_arg' = NoModelArg
    /\ llm_model' = NoLlm

Log(step, llm) ==
    /\ trace' = Append(trace, step)
    /\ stage_llm' = Append(stage_llm, llm)

---------------------------------------------------------------------------
(* chains/_llm_models.py *)

Falsy(m) == m.kind = "NoneType" \/ (m.kind = "str" /\ m.model_name = "")

Constructed(wrapper, name, temperature) ==
    [exc |-> None, msg |-> <<>>,
     llm |-> [wrapper |-> wrapper, model_name |-> name, temperature |-> temperature,
              made_by |-> "_get_llm_model"]]

_get_llm_model(m) ==
    IF Falsy(m)
    THEN Constructed("ChatOpenAI", DEFAULT_MODEL, DEFAULT_TEMPERATURE)
    ELSE IF m.kind = "ChatOpenAI"
    THEN [exc |-> None, msg |-> <<>>,
          llm |-> [wrapper |-> "ChatOpenAI", model_name |-> m.model_name,
                   temperature |-> m.temperature, made_by |-> "caller"]]
    ELSE IF m.kind = "str" /\ m.model_name \in DOMAIN PREDEFINED_MODELS
    THEN Constructed(PREDEFINED_MODELS[m.model_name], m.model_name, DEFAULT_TEMPERATURE)
    ELSE [exc |-> "ValueError", msg |-> <<"Model ", m.model_name, " not found!">>,
          llm |-> NoLlm]

(* VizroAI.__init__ and _set_task_pipeline_llm *)

ConstructWith(i, m, task_pipeline_llm) ==
    /\ AtRest
    /\ model[i] = None
    /\ i = "B" => model["A"] # None
    /\ ResetRun
    /\ self' = i
    /\ entry' = "__init__"
    /\ UNCHANGED <<explain, max_debug_retry, embed>>
    /\ model_arg' = m
    /\ LET got == _get_llm_model(m)
       IN  /\ llm_model' = got.llm
           /\ exception' = got.exc
           /\ exc_msg' = got.msg
           /\ IF got.exc # None
              THEN /\ pc' = "raised"
                   /\ UNCHANGED inst_vars
              ELSE /\ pc' = "idle"
                   /\ model' = [model EXCEPT ![i] = got.llm.model_name]
                   /\ components_instances' = [components_instances EXCEPT ![i] = <<>>]
                   /\ pipeline_manager_llm' = task_pipeline_llm
                   /\ last_constructed' = i
    /\ UNCHANGED <<graph_vars, cc_vars, pj_vars>>

Construct_FirstModelStays(i, m) ==
    ConstructWith(i, m, IF pipeline_manager_llm = None
                        THEN _get_llm_model(m).llm.model_name
                        ELSE pipeline_manager_llm)

Construct(i, m) == ConstructWith(i, m, _get_llm_model(m).llm.model_name)

Init ==
    /\ model = [i \in Instances |-> None]
    /\ components_instances = [i \in Instances |-> <<>>]
    /\ pipeline_manager_llm = None
    /\ pc = "idle"
    /\ self = "A"
    /\ entry = None
    /\ explain = FALSE
    /\ max_debug_retry = 0
    /\ embed = FALSE
    /\ model_arg = NoModelArg
    /\ llm_model = NoLlm
    /\ last_constructed = None
    /\ chart_types = None
    /\ plot_args = None
    /\ custom_chart_code = <<>>
    /\ dbg_code = <<>>
    /\ dbg_budget = 0
    /\ fix_calls = 0
    /\ candidates = <<>>
    /\ validated_code_dict = NoDict
    /\ output_dict = NoOutput
    /\ disp_args = NoDisp
    /\ exception = None
    /\ exc_msg = <<>>
    /\ ret = NoRet
    /\ trace = <<>>
    /\ stage_llm = <<>>
    /\ g_at = "idle"
    /\ g_visited = <<>>
    /\ g_exc = None
    /\ messages0 = <<>>
    /\ dfs0 = [is_list |-> TRUE, items |-> <<>>]
    /\ df_metadata0 = <<>>
    /\ current_df_names = <<>>
    /\ messages = <<>>
    /\ dfs = <<>>
    /\ df_metadata = <<>>
    /\ dashboard_plan = None
    /\ dashboard = None
    /\ cc_alive = FALSE
    /\ cc_bound = <<>>
    /\ cc_unbound = <<>>
    /\ cc_op = None
    /\ cc_args = <<>>
    /\ cc_kwargs = <<>>
    /\ cc_key = None
    /\ cc_exc = None
    /\ cc_ran = FALSE
    /\ cc_ran_with = <<>>
    /\ cc_ret = 0
    /\ config0 = NoConfig
    /\ captured_callable_config = NoConfig
    /\ pj_calls = 0
    /\ pj_exc = None
    /\ pj_msg = <<>>
    /\ pj_ret = NoConfig

---------------------------------------------------------------------------
(* VizroAI._lazy_get_component *)

(* A component is the object [llm, nth]: nth = k says it is the k-th       *)
(* object of its class that the owning VizroAI has instantiated.           *)
_lazy_get_component_Always(ci, component_class, llm) ==
    (component_class :>
        [llm |-> llm,
         nth |-> IF component_class \in DOMAIN ci THEN ci[component_class].nth + 1 ELSE 1])
    @@ ci

_lazy_get_component(ci, component_class, llm) ==
    IF component_class \in DOMAIN ci
    THEN ci
    ELSE ci @@ (component_class :> [llm |-> llm, nth |-> 1])

(* Entry points: VizroAI.plot and VizroAI._get_chart_code call            *)
(* _run_plot_tasks with their arguments.                                   *)

StartPlot(i, e, n, em) ==
    /\ AtRest
    /\ model[i] # None
    /\ ResetCall
    /\ self' = i
    /\ entry' = "plot"
    /\ explain' = e
    /\ max_debug_retry' = n
    /\ embed' = em
    /\ pc' = "chart_type"
    /\ UNCHANGED inst_vars
    /\ UNCHANGED <<graph_vars, cc_vars, pj_vars>>

StartGetChartCode(i) ==
    /\ AtRest
    /\ model[i] # None
    /\ ResetCall
    /\ self' = i
    /\ entry' = "_get_chart_code"
    /\ explain' = FALSE
    /\ max_debug_retry' = DefaultMaxDebugRetry
    /\ embed' = FALSE
    /\ pc' = "chart_type"
    /\ UNCHANGED inst_vars
    /\ UNCHANGED <<graph_vars, cc_vars, pj_vars>>

(* _run_plot_tasks: chart-type classification *)

ChartTypeRun ==
    /\ pc = "chart_type"
    /\ \E ct \in ChartTypes : chart_types' = ct
    /\ Log("chart_type_pipeline.run", pipeline_manager_llm)
    /\ pc' = "plot_pipeline"
    /\ UNCHANGED <<inst_vars, call_vars, plot_args, custom_chart_code, dbg_vars, out_vars>>
    /\ UNCHANGED <<graph_vars, cc_vars, pj_vars>>

ChartTypeRaises ==
    /\ pc = "chart_type"
    /\ Log("chart_type_pipeline.run", pipeline_manager_llm)
    /\ exception' = "OracleError"
    /\ pc' = "unwinding"
    /\ UNCHANGED <<inst_vars, call_vars, task_vars, dbg_vars, output_dict, disp_args, exc_msg, ret>>
    /\ UNCHANGED <<graph_vars, cc_vars, pj_vars>>

(* _run_plot_tasks: code generation *)

PlotPipelineRunWith(arg_chart_types) ==
    /\ pc = "plot_pipeline"
    /\ plot_args' = arg_chart_types
    /\ \E c \in Codes : custom_chart_code' = c
    /\ Log("plot_pipeline.run", pipeline_manager_llm)
    /\ pc' = "get_debugger"
    /\ UNCHANGED <<inst_vars, call_vars, chart_types, dbg_vars, out_vars>>
    /\ UNCHANGED <<graph_vars, cc_vars, pj_vars>>

PlotPipelineRun_NoChartTypes == PlotPipelineRunWith(None)

PlotPipelineRun == PlotPipelineRunWith(chart_types)

PlotPipelineRaises ==
    /\ pc = "plot_pipeline"
    /\ plot_args' = chart_types
    /\ Log("plot_pipeline.run", pipeline_manager_llm)
    /\ exception' = "OracleError"
    /\ pc' = "unwinding"
    /\ UNCHANGED <<inst_vars, call_vars, chart_types, custom_chart_code, dbg_vars,
                   output_dict, disp_args, exc_msg, ret>>
    /\ UNCHANGED <<graph_vars, cc_vars, pj_vars>>

(* _run_plot_tasks: the debugger component is fetched and _debug_helper is *)
(* entered with the generated code and the caller's retry budget.          *)

StartDebugWith(code_string, budget) ==
    /\ pc = "get_debugger"
    /\ components_instances' =
         [components_instances EXCEPT
            ![self] = _lazy_get_component(@, GetDebugger, model[self])]
    /\ dbg_code' = code_string
    /\ dbg_budget' = budget
    /\ fix_calls' = 0
    /\ Log("_debug_helper", components_instances'[self][GetDebugger].llm)
    /\ pc' = "debug_exec"
    /\ UNCHANGED <<model, pipeline_manager_llm, last_constructed, call_vars, task_vars,
                   candidates, validated_code_dict, out_vars>>
    /\ UNCHANGED <<graph_vars, cc_vars, pj_vars>>

StartDebug_OneMore == StartDebugWith(custom_chart_code, max_debug_retry + 1)

StartDebug_OneLess == StartDebugWith(custom_chart_code, max_debug_retry - 1)

StartDebug_WrongCode == StartDebugWith(<<chart_types>>, max_debug_retry)

StartDebug == StartDebugWith(custom_chart_code, max_debug_retry)

---------------------------------------------------------------------------
(* utils/helper.py: _exec_code and _debug_helper *)

ExecOk(code) == Len(code) > 0 /\ code[1] \in GoodTokens

FailedResult(code) == <<Sentinel>> \o code

DebugExec ==
    /\ pc = "debug_exec"
    /\ IF ExecOk(dbg_code)
       THEN /\ validated_code_dict' = [debug_status |-> TRUE, code_string |-> dbg_code]
            /\ pc' = "debug_done"
       ELSE IF fix_calls < dbg_budget
       THEN /\ pc' = "debug_fix"
            /\ UNCHANGED validated_code_dict
       ELSE /\ validated_code_dict' =
                 [debug_status |-> FALSE, code_string |-> FailedResult(dbg_code)]
            /\ pc' = "debug_done"
    /\ UNCHANGED <<inst_vars, call_vars, task_vars, dbg_code, dbg_budget, fix_calls,
                   candidates, out_vars, log_vars>>
    /\ UNCHANGED <<graph_vars, cc_vars, pj_vars>>

DebugFix ==
    /\ pc = "debug_fix"
    /\ \E c \in Codes :
         /\ dbg_code' = c
         /\ candidates' = Append(candidates, c)
    /\ fix_calls' = fix_calls + 1
    /\ pc' = "debug_exec"
    /\ UNCHANGED <<inst_vars, call_vars, task_vars, dbg_budget, validated_code_dict,
                   out_vars, log_vars>>
    /\ UNCHANGED <<graph_vars, cc_vars, pj_vars>>

DebugFixRaises ==
    /\ pc = "debug_fix"
    /\ fix_calls' = fix_calls + 1
    /\ exception' = "OracleError"
    /\ pc' = "unwinding"
    /\ UNCHANGED <<inst_vars, call_vars, task_vars, dbg_code, dbg_budget, candidates,
                   validated_code_dict, output_dict, disp_args, exc_msg, ret, log_vars>>
    /\ UNCHANGED <<graph_vars, cc_vars, pj_vars>>

---------------------------------------------------------------------------
(* _run_plot_tasks: after the debug loop *)

AfterDebugWith(call_explainer, code_string) ==
    /\ pc = "debug_done"
    /\ LET pass_validation == validated_code_dict.debug_status
       IN  IF call_explainer
           THEN /\ components_instances' =
                     [components_instances EXCEPT
                        ![self] = _lazy_get_component(@, GetCodeExplanation, model[self])]
                /\ pc' = "explain"
                /\ UNCHANGED output_dict
           ELSE /\ output_dict' = [business_insights |-> None,
                                   code_explanation |-> None,
                                   code_string |-> code_string]
                /\ pc' = "tasks_return"
                /\ UNCHANGED components_instances
    /\ UNCHANGED <<model, pipeline_manager_llm, last_constructed, call_vars, task_vars,
                   dbg_vars, disp_args, exception, exc_msg, ret, log_vars>>
    /\ UNCHANGED <<graph_vars, cc_vars, pj_vars>>

AfterDebug_ExplainOnly == AfterDebugWith(explain, validated_code_dict.code_string)

AfterDebug_UnrepairedCode ==
    AfterDebugWith(explain /\ validated_code_dict.debug_status, custom_chart_code)

AfterDebug ==
    AfterDebugWith(explain /\ validated_code_dict.debug_status,
                   validated_code_dict.code_string)

ExplainRun ==
    /\ pc = "explain"
    /\ \E bi \in Insights, ce \in Explanations :
         output_dict' = [business_insights |-> bi,
                         code_explanation |-> ce,
                         code_string |-> validated_code_dict.code_string]
    /\ Log("GetCodeExplanation.run", components_instances[self][GetCodeExplanation].llm)
    /\ pc' = "tasks_return"
    /\ UNCHANGED <<inst_vars, call_vars, task_vars, dbg_vars, disp_args, exception,
                   exc_msg, ret>>
    /\ UNCHANGED <<graph_vars, cc_vars, pj_vars>>

ExplainRaises ==
    /\ pc = "explain"
    /\ Log("GetCodeExplanation.run", components_instances[self][GetCodeExplanation].llm)
    /\ exception' = "OracleError"
    /\ pc' = "unwinding"
    /\ UNCHANGED <<inst_vars, call_vars, task_vars, dbg_vars, output_dict, disp_args,
                   exc_msg, ret>>
    /\ UNCHANGED <<graph_vars, cc_vars, pj_vars>>

(* An exception raised inside _run_plot_tasks meets no handler there nor   *)
(* in plot / _get_chart_code: it reaches the caller as raised.             *)

Unwind_Swallowed ==
    /\ pc = "unwinding"
    /\ pc' = "debug_done"
    /\ exception' = None
    /\ validated_code_dict' =
         [debug_status |-> FALSE, code_string |-> <<Sentinel>> \o dbg_code]
    /\ UNCHANGED <<inst_vars, call_vars, task_vars, dbg_code, dbg_budget, fix_calls,
                   candidates, output_dict, disp_args, exc_msg, ret, log_vars>>
    /\ UNCHANGED <<graph_vars, cc_vars, pj_vars>>

Unwind ==
    /\ pc = "unwinding"
    /\ pc' = "raised"
    /\ UNCHANGED <<inst_vars, call_vars, task_vars, dbg_vars, out_vars, log_vars>>
    /\ UNCHANGED <<graph_vars, cc_vars, pj_vars>>

---------------------------------------------------------------------------
(* VizroAI._get_chart_code *)

GetChartCodeReturn_Raises ==
    /\ pc = "tasks_return"
    /\ entry = "_get_chart_code"
    /\ IF StartsWith(output_dict.code_string, <<Sentinel>>)
       THEN /\ pc' = "raised"
            /\ exception' = "DebugFailure"
            /\ UNCHANGED ret
       ELSE /\ pc' = "done"
            /\ ret' = [type |-> "str", text |-> output_dict.code_string]
            /\ UNCHANGED exception
    /\ UNCHANGED <<inst_vars, call_vars, task_vars, dbg_vars, output_dict, disp_args,
                   exc_msg, log_vars>>
    /\ UNCHANGED <<graph_vars, cc_vars, pj_vars>>

GetChartCodeReturn ==
    /\ pc = "tasks_return"
    /\ entry = "_get_chart_code"
    /\ ret' = [type |-> "str", text |-> output_dict.code_string]
    /\ pc' = "done"
    /\ UNCHANGED <<inst_vars, call_vars, task_vars, dbg_vars, output_dict, disp_args,
                   exception, exc_msg, log_vars>>
    /\ UNCHANGED <<graph_vars, cc_vars, pj_vars>>

(* VizroAI.plot *)

PlotCheckWith(failed) ==
    /\ pc = "tasks_return"
    /\ entry = "plot"
    /\ IF failed
       THEN /\ exception' = "DebugFailure"
            /\ exc_msg' = <<DebugFailurePrefix>> \o output_dict.code_string
            /\ pc' = "raised"
       ELSE /\ pc' = "display"
            /\ UNCHANGED <<exception, exc_msg>>
    /\ UNCHANGED <<inst_vars, call_vars, task_vars, dbg_vars, output_dict, disp_args,
                   ret, log_vars>>
    /\ UNCHANGED <<graph_vars, cc_vars, pj_vars>>

PlotCheck_NoCheck == PlotCheckWith(FALSE)

PlotCheck == PlotCheckWith(StartsWith(output_dict.code_string, <<Sentinel>>))

PlotDisplayWith(with_explanation) ==
    /\ pc = "display"
    /\ IF ~with_explanation
       THEN /\ Log("_exec_code", None)
            /\ disp_args' = [fn |-> "_exec_code",
                             code |-> output_dict.code_string,
                             biz_insights |-> None,
                             code_explain |-> None]
       ELSE /\ Log("_display_markdown_and_chart", None)
            /\ disp_args' = [fn |-> "_display_markdown_and_chart",
                             code |-> output_dict.code_string,
                             biz_insights |-> output_dict.business_insights,
                             code_explain |-> output_dict.code_explanation]
    /\ pc' = "plot_return"
    /\ UNCHANGED <<inst_vars, call_vars, task_vars, dbg_vars, output_dict, exception,
                   exc_msg, ret>>
    /\ UNCHANGED <<graph_vars, cc_vars, pj_vars>>

PlotDisplay_AlwaysMarkdown == PlotDisplayWith(TRUE)

PlotDisplay == PlotDisplayWith(explain)

PlotReturn ==
    /\ pc = "plot_return"
    /\ IF embed
       THEN /\ Log("_return_fig_object", None)
            /\ ret' = [type |-> "Figure", text |-> output_dict.code_string]
       ELSE /\ UNCHANGED log_vars
            /\ ret' = IF _return_all_text
                      THEN [type |-> "dict", text |-> output_dict.code_string]
                      ELSE NoRet
    /\ pc' = "done"
    /\ UNCHANGED <<inst_vars, call_vars, task_vars, dbg_vars, output_dict, disp_args,
                   exception, exc_msg>>
    /\ UNCHANGED <<graph_vars, cc_vars, pj_vars>>

---------------------------------------------------------------------------

CallStep ==
    \/ ChartTypeRun
    \/ ChartTypeRaises
    \/ PlotPipelineRun
    \/ PlotPipelineRaises
    \/ StartDebug
    \/ DebugExec
    \/ DebugFix
    \/ DebugFixRaises
    \/ AfterDebug
    \/ ExplainRun
    \/ ExplainRaises
    \/ Unwind
    \/ GetChartCodeReturn
    \/ PlotCheck
    \/ PlotDisplay
    \/ PlotReturn

Next ==
    \/ \E i \in Instances, m \in ModelArgs : Construct(i, m)
    \/ \E i \in Instances, e \in BOOLEAN, n \in 0..MaxRetry, em \in BOOLEAN :
         StartPlot(i, e, n, em)
    \/ \E i \in Instances : StartGetChartCode(i)
    \/ CallStep

Spec == Init /\ [][Next]_vars

(* The control thread is never preempted: a call that can take a step     *)
(* takes it.                                                               *)
LiveSpec == Spec /\ WF_vars(CallStep)

---------------------------------------------------------------------------
(* dashboard/graph/code_generation.py: the dashboard state graph.          *)
(* A dataset name is a sequence of characters.                             *)

MaxDfs == 2

END == "__end__"
DataFrames == {"df1", "df2"}
NotADataFrame == "not_a_dataframe"
Plans == {"plan_a"}
Dashboards == {"dash_a", "dash_b"}
ImportStatements ==
    {<<"from vizro import Vizro">>,
     <<"from vizro import Vizro", "import vizro.models as vm">>}
UserQuery == <<"user", <<"I need a page with a table">>>>
MessageInputs ==
    {<<UserQuery>>, <<UserQuery, <<"assistant", <<"import pandas as pd">>>>>>}

GlobalDemographics ==
    <<"G", "l", "o", "b", "a", "l", " ", "D", "e", "m", "o", "g", "r", "a", "p",
      "h", "i", "c", "s", "!", "!">>
OracleNames ==
    {GlobalDemographics,
     <<"S", "a", "l", "e", "s">>,
     <<"s", "a", "l", "e", "s", "!">>,
     <<"a", "_", " ", "!", "b">>,
     <<"!", "!">>}

ToLower == ("G" :> "g") @@ ("D" :> "d") @@ ("S" :> "s")
NonWordChars == {" ", "!"}

str_lower(s) ==
    [k \in 1..Len(s) |-> IF s[k] \in DOMAIN ToLower THEN ToLower[s[k]] ELSE s[k]]

RECURSIVE SkipNonWord(_)
SkipNonWord(s) ==
    IF s # <<>> /\ Head(s) \in NonWordChars THEN SkipNonWord(Tail(s)) ELSE s

RECURSIVE re_sub_nonword(_)
re_sub_nonword(s) ==
    IF s = <<>> THEN <<>>
    ELSE IF Head(s) \in NonWordChars
    THEN <<"_">> \o re_sub_nonword(SkipNonWord(s))
    ELSE <<Head(s)>> \o re_sub_nonword(Tail(s))

RECURSIVE str_lstrip(_)
str_lstrip(s) ==
    IF s # <<>> /\ Head(s) = "_" THEN str_lstrip(Tail(s)) ELSE s

RECURSIVE str_rstrip(_)
str_rstrip(s) ==
    IF s # <<>> /\ s[Len(s)] = "_" THEN str_rstrip(SubSeq(s, 1, Len(s) - 1)) ELSE s

str_strip(s) == str_rstrip(str_lstrip(s))

DfId_NoStrip(dataset_name) == re_sub_nonword(str_lower(dataset_name))

DfId(dataset_name) == str_strip(re_sub_nonword(str_lower(dataset_name)))

_get_df_info(df) == [df_schema |-> <<"schema", df>>, df_sample |-> <<"sample", df>>]

DictPut(d, key, value) ==
    [k \in (DOMAIN d) \cup {key} |-> IF k = key THEN value ELSE d[k]]

MetadataInputs == {<<>>, DictPut(<<>>, <<"s", "a", "l", "e", "s">>, _get_df_info("df0"))}

DfsInputs ==
    {[is_list |-> FALSE, items |-> <<>>]} \cup
    {[is_list |-> TRUE, items |-> d] :
        d \in UNION {[1..n -> DataFrames \cup {NotADataFrame}] : n \in 0..MaxDfs}}

check_dataframes_ListOnly(v) == v.is_list

(* GraphState.check_dataframes *)
check_dataframes(v) ==
    /\ v.is_list
    /\ \A k \in DOMAIN v.items : v.items[k] \in DataFrames

(* _create_and_compile_graph *)
Nodes ==
    {"_store_df_info", "_compose_imports_code", "_dashboard_plan", "_build_dashboard",
     "_generate_dashboard_code"}

Edges_SkipBuild ==
    {<<"_store_df_info", "_compose_imports_code">>,
     <<"_compose_imports_code", "_dashboard_plan">>,
     <<"_dashboard_plan", "_generate_dashboard_code">>,
     <<"_build_dashboard", "_generate_dashboard_code">>,
     <<"_generate_dashboard_code", END>>}

Edges ==
    {<<"_store_df_info", "_compose_imports_code">>,
     <<"_compose_imports_code", "_dashboard_plan">>,
     <<"_dashboard_plan", "_build_dashboard">>,
     <<"_build_dashboard", "_generate_dashboard_code">>,
     <<"_generate_dashboard_code", END>>}

EntryPoint == "_store_df_info"

Succ(n) == {e[2] : e \in {d \in Edges : d[1] = n}}

(* runnable.invoke(input): the state is constructed and validated, then   *)
(* the run starts at the entry point.                                      *)
GraphInvoke(msgs, ds, md) ==
    /\ g_at = "idle"
    /\ g_visited' = <<>>
    /\ messages0' = msgs
    /\ dfs0' = ds
    /\ df_metadata0' = md
    /\ current_df_names' = <<>>
    /\ IF check_dataframes(ds)
       THEN /\ g_at' = EntryPoint
            /\ g_exc' = None
            /\ messages' = msgs
            /\ dfs' = ds.items
            /\ df_metadata' = md
       ELSE /\ g_at' = "raised"
            /\ g_exc' = "ValidationError"
            /\ messages' = <<>>
            /\ dfs' = <<>>
            /\ df_metadata' = <<>>
    /\ dashboard_plan' = None
    /\ dashboard' = None
    /\ UNCHANGED <<plot_vars, cc_vars, pj_vars>>

(* A node ran to completion: the run moves along its outgoing edge. *)
Advance(n) ==
    /\ g_at = n
    /\ g_visited' = Append(g_visited, n)
    /\ g_at' \in Succ(n)
    /\ UNCHANGED <<g_exc, ginput_vars, plot_vars, cc_vars, pj_vars>>

RECURSIVE StoreLoop_FirstWins(_, _, _, _)
StoreLoop_FirstWins(md, ds, names, k) ==
    IF k > Len(ds) THEN md
    ELSE StoreLoop_FirstWins(
             IF DfId(names[k]) \in DOMAIN md THEN md
             ELSE DictPut(md, DfId(names[k]), _get_df_info(ds[k])),
             ds, names, k + 1)

RECURSIVE StoreLoop(_, _, _, _)
StoreLoop(md, ds, names, k) ==
    IF k > Len(ds) THEN md
    ELSE StoreLoop(DictPut(md, DfId(names[k]), _get_df_info(ds[k])), ds, names, k + 1)

_store_df_info ==
    /\ Advance("_store_df_info")
    /\ \E names \in [1..Len(dfs) -> OracleNames] :
         /\ current_df_names' = names
         /\ df_metadata' = StoreLoop(df_metadata, dfs, names, 1)
    /\ UNCHANGED <<messages, dfs, dashboard_plan, dashboard>>

_compose_imports_code_Replace ==
    /\ Advance("_compose_imports_code")
    /\ \E import_statement \in ImportStatements :
         messages' = <<(<<"assistant", import_statement>>)>>
    /\ UNCHANGED <<dfs, df_metadata, dashboard_plan, dashboard, current_df_names>>

_compose_imports_code ==
    /\ Advance("_compose_imports_code")
    /\ \E import_statement \in ImportStatements :
         messages' = messages \o <<(<<"assistant", import_statement>>)>>
    /\ UNCHANGED <<dfs, df_metadata, dashboard_plan, dashboard, current_df_names>>

_dashboard_plan ==
    /\ Advance("_dashboard_plan")
    /\ messages # <<>>
    /\ \E plan \in Plans : dashboard_plan' = plan
    /\ UNCHANGED <<messages, dfs, df_metadata, dashboard, current_df_names>>

_build_dashboard ==
    /\ Advance("_build_dashboard")
    /\ \E d \in Dashboards : dashboard' = d
    /\ UNCHANGED <<messages, dfs, df_metadata, dashboard_plan, current_df_names>>

dict_obj(d) ==
    IF d = "dash_a" THEN "vm.Dashboard(pages=[a])"
    ELSE IF d = "dash_b" THEN "vm.Dashboard(pages=[b])"
    ELSE "None"

_generate_dashboard_code_FirstMessage ==
    /\ Advance("_generate_dashboard_code")
    /\ messages # <<>>
    /\ LET import_statement == messages[1][2]
           full_code_string ==
               <<"\n">> \o import_statement \o
               <<"\ndashboard=", dict_obj(dashboard),
                 "\n\nVizro().build(dashboard).run()\n">>
       IN  messages' = messages \o <<(<<"assistant", full_code_string>>)>>
    /\ UNCHANGED <<dfs, df_metadata, dashboard_plan, dashboard, current_df_names>>

_generate_dashboard_code ==
    /\ Advance("_generate_dashboard_code")
    /\ messages # <<>>
    /\ LET import_statement == messages[Len(messages)][2]
           full_code_string ==
               <<"\n">> \o import_statement \o
               <<"\ndashboard=", dict_obj(dashboard),
                 "\n\nVizro().build(dashboard).run()\n">>
       IN  messages' = messages \o <<(<<"assistant", full_code_string>>)>>
    /\ UNCHANGED <<dfs, df_metadata, dashboard_plan, dashboard, current_df_names>>

(* A node raised: the run is aborted with the state as it was. *)
NodeRaises ==
    /\ g_at \in Nodes
    /\ g_visited' = Append(g_visited, g_at)
    /\ g_at' = "raised"
    /\ g_exc' = "NodeError"
    /\ UNCHANGED <<ginput_vars, current_df_names, gstate_vars, plot_vars, cc_vars, pj_vars>>

(* invoke has returned or raised: the state of the run is dropped. *)
GraphReturn ==
    /\ g_at \in {END, "raised"}
    /\ g_at' = "idle"
    /\ g_visited' = <<>>
    /\ g_exc' = None
    /\ messages0' = <<>>
    /\ dfs0' = [is_list |-> TRUE, items |-> <<>>]
    /\ df_metadata0' = <<>>
    /\ current_df_names' = <<>>
    /\ messages' = <<>>
    /\ dfs' = <<>>
    /\ df_metadata' = <<>>
    /\ dashboard_plan' = None
    /\ dashboard' = None
    /\ UNCHANGED <<plot_vars, cc_vars, pj_vars>>

GraphStep ==
    \/ _store_df_info
    \/ _compose_imports_code
    \/ _dashboard_plan
    \/ _build_dashboard
    \/ _generate_dashboard_code
    \/ NodeRaises

GraphNext ==
    \/ \E msgs \in MessageInputs, ds \in DfsInputs, md \in MetadataInputs :
         GraphInvoke(msgs, ds, md)
    \/ GraphStep
    \/ GraphReturn

GraphSpec == Init /\ [][GraphNext]_vars

(* Nodes run synchronously, one after the other: a run that can take a    *)
(* step takes it.                                                          *)
GraphLiveSpec == GraphSpec /\ WF_vars(GraphStep)

---------------------------------------------------------------------------
(* vizro/models/types.py: CapturedCallable                                 *)
(*                                                                         *)
(* The captured function is  def function(a, b, *, c)  with no defaults;   *)
(* a dict of keyword arguments is a function from parameter names to       *)
(* values.                                                                 *)

MaxCallArgs == 3

Values == {1, 2}
POSITIONAL_OR_KEYWORD == "POSITIONAL_OR_KEYWORD"
KEYWORD_ONLY == "KEYWORD_ONLY"
Parameters == <<"a", "b", "c">>
ParamKind == ("a" :> POSITIONAL_OR_KEYWORD) @@ ("b" :> POSITIONAL_OR_KEYWORD) @@
             ("c" :> KEYWORD_ONLY)
ParamNames == {Parameters[k] : k \in DOMAIN Parameters}

PositionalValues == {2}
ArgLists == UNION {[1..n -> PositionalValues] : n \in 0..MaxCallArgs}
KwargDicts == UNION {[D -> Values] : D \in SUBSET ParamNames}

(* dict(zip(names, args)) *)
Zip(names, args) ==
    LET n == IF Len(names) < Len(args) THEN Len(names) ELSE Len(args)
    IN  [name \in {names[k] : k \in 1..n} |->
            args[CHOOSE k \in 1..n : names[k] = name]]

PositionalOrKeyword(names) ==
    LET pok(p) == ParamKind[p] = POSITIONAL_OR_KEYWORD
    IN  SelectSeq(names, pok)

Raised(exc) == [exc |-> exc, ran |-> FALSE, with |-> <<>>]

(* inspect.signature(function).bind_partial of args and kwargs: .arguments *)
bind_partial(args, kwargs) ==
    LET positional == PositionalOrKeyword(Parameters)
        by_position == Zip(positional, args)
    IN  IF Len(args) > Len(positional) THEN [exc |-> "TypeError", arguments |-> <<>>]
        ELSE IF DOMAIN by_position \cap DOMAIN kwargs # {}
        THEN [exc |-> "TypeError", arguments |-> <<>>]
        ELSE IF ~(DOMAIN kwargs \subseteq ParamNames)
        THEN [exc |-> "TypeError", arguments |-> <<>>]
        ELSE [exc |-> None, arguments |-> by_position @@ kwargs]

(* The call expression of self.__function with the two dicts unpacked as  *)
(* keyword arguments: a keyword given twice, a missing parameter or an     *)
(* unexpected keyword raises TypeError before the function body runs.      *)
CallFunction(first, second) ==
    IF DOMAIN first \cap DOMAIN second # {} THEN Raised("TypeError")
    ELSE IF DOMAIN first \cup DOMAIN second # ParamNames THEN Raised("TypeError")
    ELSE [exc |-> None, ran |-> TRUE, with |-> first @@ second]

(* CapturedCallable.__init__ *)
CapturedCallable_init(args, kwargs) ==
    /\ ~cc_alive
    /\ cc_op' = "__init__"
    /\ cc_args' = args
    /\ cc_kwargs' = kwargs
    /\ cc_key' = None
    /\ cc_ran' = FALSE
    /\ cc_ran_with' = <<>>
    /\ cc_ret' = 0
    /\ LET invalid_params ==
               {p \in ParamNames : ParamKind[p] \in {"POSITIONAL_ONLY", "VAR_POSITIONAL"}}
           bound == bind_partial(args, kwargs)
           unbound(p) == p \notin DOMAIN bound.arguments
       IN  IF invalid_params # {}
           THEN /\ cc_exc' = "ValueError"
                /\ UNCHANGED cc_obj_vars
           ELSE IF bound.exc # None
           THEN /\ cc_exc' = bound.exc
                /\ UNCHANGED cc_obj_vars
           ELSE /\ cc_exc' = None
                /\ cc_alive' = TRUE
                /\ cc_bound' = bound.arguments
                /\ cc_unbound' = SelectSeq(Parameters, unbound)
    /\ UNCHANGED <<plot_vars, graph_vars, pj_vars>>

(* CapturedCallable.__call__ *)
CallWith(args, kwargs, bound_after) ==
    /\ cc_alive
    /\ cc_op' = "__call__"
    /\ cc_args' = args
    /\ cc_kwargs' = kwargs
    /\ cc_key' = None
    /\ cc_ret' = 0
    /\ LET unbound_positional_arguments == PositionalOrKeyword(cc_unbound)
           result ==
               IF args # <<>> /\ kwargs # <<>> THEN Raised("ValueError")
               ELSE IF args # <<>>
               THEN IF Len(args) > Len(unbound_positional_arguments)
                    THEN Raised("TypeError")
                    ELSE CallFunction(Zip(unbound_positional_arguments, args), cc_bound)
               ELSE CallFunction(kwargs @@ cc_bound, <<>>)
       IN  /\ cc_exc' = result.exc
           /\ cc_ran' = result.ran
           /\ cc_ran_with' = result.with
    /\ cc_bound' = bound_after
    /\ UNCHANGED <<cc_alive, cc_unbound, plot_vars, graph_vars, pj_vars>>

CapturedCallable_call_UpdatesBound(args, kwargs) ==
    CallWith(args, kwargs, kwargs @@ cc_bound)

CapturedCallable_call(args, kwargs) == CallWith(args, kwargs, cc_bound)

(* CapturedCallable.__getitem__ *)
CapturedCallable_getitem(arg_name) ==
    /\ cc_alive
    /\ cc_op' = "__getitem__"
    /\ cc_args' = <<>>
    /\ cc_kwargs' = <<>>
    /\ cc_key' = arg_name
    /\ cc_ran' = FALSE
    /\ cc_ran_with' = <<>>
    /\ IF arg_name \in DOMAIN cc_bound
       THEN cc_exc' = None /\ cc_ret' = cc_bound[arg_name]
       ELSE cc_exc' = "KeyError" /\ cc_ret' = 0
    /\ UNCHANGED <<cc_obj_vars, plot_vars, graph_vars, pj_vars>>

(* CapturedCallable.__setitem__ *)
CapturedCallable_setitem(arg_name, value) ==
    /\ cc_alive
    /\ cc_op' = "__setitem__"
    /\ cc_args' = <<value>>
    /\ cc_kwargs' = <<>>
    /\ cc_key' = arg_name
    /\ cc_exc' = None
    /\ cc_ran' = FALSE
    /\ cc_ran_with' = <<>>
    /\ cc_ret' = 0
    /\ cc_bound' = (arg_name :> value) @@ cc_bound
    /\ UNCHANGED <<cc_alive, cc_unbound, plot_vars, graph_vars, pj_vars>>

CallableNext ==
    \/ \E args \in ArgLists, kwargs \in KwargDicts : CapturedCallable_init(args, kwargs)
    \/ \E args \in ArgLists, kwargs \in KwargDicts : CapturedCallable_call(args, kwargs)
    \/ \E arg_name \in ParamNames : CapturedCallable_getitem(arg_name)
    \/ \E arg_name \in ParamNames, value \in Values : CapturedCallable_setitem(arg_name, value)

CallableSpec == Init /\ [][CallableNext]_vars

---------------------------------------------------------------------------
(* vizro/models/types.py: CapturedCallable._parse_json                     *)
(*                                                                         *)
(* An object is [kind, items]: a dict has kind "dict" and its items; any   *)
(* other object has no items. The variable captured_callable_config is the *)
(* caller's object itself, so a change of its items is seen by the caller. *)

MaxValidations == 3

TargetKey == "_target_"
Importable == {"scatter"}
TargetNames == {"scatter", "no_such_function"}
KwargKeys == {"x", "y"}
KwargValues == {"1", "2"}

KwargItems == UNION {[D -> KwargValues] : D \in SUBSET KwargKeys}

DictItems ==
    KwargItems \cup {(TargetKey :> t) @@ kw : t \in TargetNames, kw \in KwargItems}

ConfigInputs ==
    {[kind |-> "dict", items |-> it] : it \in DictItems} \cup
    {[kind |-> k, items |-> <<>>] : k \in {"CapturedCallable", "_SupportsCapturedCallable"}}

(* d after d.pop(key) *)
dict_pop_Keeps(d, key) == d

dict_pop(d, key) == [k \in DOMAIN d \ {key} |-> d[k]]

(* The caller builds an object to validate. *)
NewConfig(c) ==
    /\ pj_calls = 0
    /\ config0 = NoConfig
    /\ config0' = c
    /\ captured_callable_config' = c
    /\ UNCHANGED <<pj_calls, pj_exc, pj_msg, pj_ret>>
    /\ UNCHANGED <<plot_vars, graph_vars, cc_vars>>

_parse_json ==
    /\ config0 # NoConfig
    /\ pj_calls < MaxValidations
    /\ pj_calls' = pj_calls + 1
    /\ IF captured_callable_config.kind # "dict"
       THEN /\ pj_ret' = captured_callable_config
            /\ pj_exc' = None
            /\ pj_msg' = <<>>
            /\ UNCHANGED captured_callable_config
       ELSE IF TargetKey \notin DOMAIN captured_callable_config.items
       THEN /\ pj_exc' = "ValueError"
            /\ pj_msg' = <<"CapturedCallable object must contain the key '_target_'">>
            /\ pj_ret' = NoConfig
            /\ UNCHANGED captured_callable_config
       ELSE LET function_name == captured_callable_config.items[TargetKey]
                function_kwargs == dict_pop(captured_callable_config.items, TargetKey)
            IN  /\ captured_callable_config' =
                      [captured_callable_config EXCEPT !.items = function_kwargs]
                /\ IF function_name \notin Importable
                   THEN /\ pj_exc' = "ValueError"
                        /\ pj_msg' = <<"_target_=", function_name, " cannot be imported">>
                        /\ pj_ret' = NoConfig
                   ELSE /\ pj_exc' = None
                        /\ pj_msg' = <<>>
                        /\ pj_ret' = [kind |-> "CapturedCallable", items |-> function_kwargs]
    /\ UNCHANGED config0
    /\ UNCHANGED <<plot_vars, graph_vars, cc_vars>>

(* The caller drops the object. *)
DropConfig ==
    /\ config0 # NoConfig
    /\ config0' = NoConfig
    /\ captured_callable_config' = NoConfig
    /\ pj_calls' = 0
    /\ pj_exc' = None
    /\ pj_msg' = <<>>
    /\ pj_ret' = NoConfig
    /\ UNCHANGED <<plot_vars, graph_vars, cc_vars>>

ParseJsonNext ==
    \/ \E c \in ConfigInputs : NewConfig(c)
    \/ _parse_json
    \/ DropConfig

ParseJsonSpec == Init /\ [][ParseJsonNext]_vars

---------------------------------------------------------------------------
(* Vocabulary of the properties *)

LoopReturned == validated_code_dict # NoDict
OutputReady == output_dict # NoOutput
InLoop == pc \in {"debug_exec", "debug_fix"}
InitialBroken == custom_chart_code # <<>> /\ ~ExecOk(custom_chart_code)
InitialOk == custom_chart_code # <<>> /\ ExecOk(custom_chart_code)
AllCandidatesBroken == \A k \in DOMAIN candidates : ~ExecOk(candidates[k])
LastCandidate ==
    IF candidates = <<>> THEN custom_chart_code ELSE candidates[Len(candidates)]
Invoked(step) == \E k \in DOMAIN trace : trace[k] = step
TimesInvoked(step) == Cardinality({k \in DOMAIN trace : trace[k] = step})
DisplaySteps == {"_exec_code", "_display_markdown_and_chart", "_return_fig_object"}
FixOracleFailed ==
    /\ exception = "OracleError"
    /\ trace # <<>>
    /\ trace[Len(trace)] = "_debug_helper"
TaskOrder ==
    <<"chart_type_pipeline.run", "plot_pipeline.run", "_debug_helper",
      "GetCodeExplanation.run">>
TaskSteps == SelectSeq(trace, LAMBDA t : t \notin DisplaySteps)

---------------------------------------------------------------------------
(* C1: when the generated code and every candidate of the fix oracle fail  *)
(* to execute, the debug loop returns after exactly max_debug_retry fix    *)
(* calls, with debug_status false and a code_string that begins with the   *)
(* sentinel and contains the last candidate produced.                      *)
C1_ExhaustedAfterNFixes ==
    (LoopReturned /\ InitialBroken /\ AllCandidatesBroken) =>
        /\ fix_calls = max_debug_retry
        /\ Len(candidates) = max_debug_retry
        /\ validated_code_dict.debug_status = FALSE
        /\ StartsWith(validated_code_dict.code_string, <<Sentinel>>)
        /\ Contains(validated_code_dict.code_string, LastCandidate)

C1_Witness ==
    /\ LoopReturned /\ InitialBroken /\ AllCandidatesBroken
    /\ max_debug_retry = 2
    /\ Len(candidates) = 2
    /\ candidates[1] # candidates[2]

(* C2: when the generated code executes, the loop returns valid with the   *)
(* code unchanged and never calls the fix oracle, whatever the budget.     *)
C2_ValidInitialNoFix ==
    InitialOk =>
        /\ fix_calls = 0
        /\ candidates = <<>>
        /\ pc # "debug_fix"
        /\ LoopReturned =>
             /\ validated_code_dict.debug_status = TRUE
             /\ validated_code_dict.code_string = custom_chart_code

C2_Witness ==
    /\ InitialOk
    /\ LoopReturned
    /\ max_debug_retry = 0

(* C3: the number of fix-oracle calls never exceeds the retry budget of    *)
(* the call, and a run that is inside the debug loop eventually leaves it. *)
C3_BoundedRetries ==
    /\ [](fix_calls <= max_debug_retry)
    /\ (InLoop ~> ~InLoop)

C3_Witness ==
    /\ LoopReturned
    /\ max_debug_retry >= 2
    /\ fix_calls = max_debug_retry
    /\ validated_code_dict.debug_status = TRUE

(* C4: with broken generated code and a first repair that executes, a      *)
(* budget of at least 1 returns valid after exactly one fix call, and a    *)
(* budget of 0 returns failed with no fix call.                            *)
C4_FirstRepairWorks ==
    (LoopReturned /\ InitialBroken) =>
        /\ max_debug_retry = 0 =>
             /\ fix_calls = 0
             /\ validated_code_dict.debug_status = FALSE
             /\ StartsWith(validated_code_dict.code_string, <<Sentinel>>)
        /\ max_debug_retry >= 1 =>
             /\ fix_calls >= 1
             /\ Len(candidates) >= 1
             /\ ExecOk(candidates[1]) =>
                  /\ fix_calls = 1
                  /\ validated_code_dict.debug_status = TRUE
                  /\ validated_code_dict.code_string = candidates[1]

C4_Witness ==
    /\ LoopReturned /\ InitialBroken
    /\ max_debug_retry = 1
    /\ Len(candidates) = 1
    /\ ExecOk(candidates[1])

C4_WitnessZero ==
    /\ LoopReturned /\ InitialBroken
    /\ max_debug_retry = 0

(* C5: with budget 3, broken generated code, a broken first repair and a   *)
(* working second repair (the third execution attempt), the loop returns   *)
(* valid after exactly 2 fix calls and the code returned, by the loop and  *)
(* by _run_plot_tasks, is that working candidate without sentinel.         *)
C5_ThirdAttemptValid ==
    (/\ LoopReturned
     /\ max_debug_retry = 3
     /\ InitialBroken
     /\ Len(candidates) >= 2
     /\ ~ExecOk(candidates[1])
     /\ ExecOk(candidates[2])) =>
        /\ fix_calls = 2
        /\ validated_code_dict.debug_status = TRUE
        /\ validated_code_dict.code_string = candidates[2]
        /\ ~StartsWith(validated_code_dict.code_string, <<Sentinel>>)
        /\ OutputReady => output_dict.code_string = candidates[2]

C5_Witness ==
    /\ LoopReturned
    /\ OutputReady
    /\ max_debug_retry = 3
    /\ InitialBroken
    /\ Len(candidates) = 2
    /\ ~ExecOk(candidates[1])
    /\ ExecOk(candidates[2])

(* C6: a failure of the fix-oracle call leaves the loop and the call as    *)
(* an exception: no result is produced from it (no sentinel text, no       *)
(* output, no message added), and the only step that follows hands the     *)
(* same exception to the caller with no further fix call or execution.     *)
C6_FixOracleErrorPropagates ==
    /\ [](FixOracleFailed =>
            /\ pc \in {"unwinding", "raised"}
            /\ validated_code_dict = NoDict
            /\ output_dict = NoOutput
            /\ disp_args = NoDisp
            /\ exc_msg = <<>>
            /\ ret = NoRet)
    /\ [][(FixOracleFailed /\ pc = "unwinding") =>
            /\ pc' = "raised"
            /\ exception' = exception
            /\ UNCHANGED <<dbg_vars, output_dict, exc_msg, ret, log_vars>>]_vars

C6_Witness ==
    /\ FixOracleFailed
    /\ pc = "raised"
    /\ fix_calls = 2
    /\ max_debug_retry = 3

(* C7: in plot, a result of _run_plot_tasks that begins with the sentinel  *)
(* ends the call with DebugFailure, whose message contains that text and   *)
(* the last failing code, before any display step is invoked; an exhausted *)
(* loop returns its result and raises nothing itself.                      *)
C7_PlotRaisesDebugFailure ==
    /\ (/\ entry = "plot"
        /\ OutputReady
        /\ StartsWith(output_dict.code_string, <<Sentinel>>)
        /\ pc # "tasks_return") =>
          /\ pc = "raised"
          /\ exception = "DebugFailure"
          /\ Contains(exc_msg, output_dict.code_string)
          /\ Contains(exc_msg, LastCandidate)
          /\ \A d \in DisplaySteps : ~Invoked(d)
          /\ disp_args = NoDisp
    /\ (LoopReturned /\ ~validated_code_dict.debug_status /\ pc = "debug_done") =>
          exception = None
    /\ exception = "DebugFailure" => (entry = "plot" /\ pc = "raised")

C7_Witness ==
    /\ entry = "plot"
    /\ pc = "raised"
    /\ exception = "DebugFailure"
    /\ explain
    /\ fix_calls = 2

(* C8: the explanation oracle runs at most once per run, and only when     *)
(* explain is set and the debug loop reported validation passed; otherwise *)
(* it is never called and both texts of the result are None.               *)
C8_ExplainOnlyWhenValidated ==
    /\ TimesInvoked("GetCodeExplanation.run") <= 1
    /\ (Invoked("GetCodeExplanation.run") \/ pc = "explain") =>
          (explain /\ validated_code_dict.debug_status)
    /\ (OutputReady /\ ~(explain /\ validated_code_dict.debug_status)) =>
          /\ output_dict.business_insights = None
          /\ output_dict.code_explanation = None
          /\ ~Invoked("GetCodeExplanation.run")

C8_Witness ==
    /\ OutputReady
    /\ explain
    /\ ~validated_code_dict.debug_status
    /\ fix_calls = 1

(* C9: the steps of _run_plot_tasks run in the order chart type, code      *)
(* generation, debug loop, optional explanation, each at most once; code   *)
(* generation is given the chart types, the debug loop starts from the     *)
(* generated code, and after a step raised no further step is invoked.     *)
C9_StrictTaskOrder ==
    /\ [](/\ Len(TaskSteps) <= Len(TaskOrder)
          /\ TaskSteps = SubSeq(TaskOrder, 1, Len(TaskSteps))
          /\ Invoked("plot_pipeline.run") => plot_args = chart_types
          /\ (pc = "debug_exec" /\ fix_calls = 0) => dbg_code = custom_chart_code
          /\ OutputReady => Len(TaskSteps) >= 3
          /\ exception = "OracleError" => pc \in {"unwinding", "raised"})
    /\ [][pc = "unwinding" => (pc' = "raised" /\ trace' = trace)]_vars

C9_Witness ==
    /\ pc = "raised"
    /\ exception = "OracleError"
    /\ trace = <<"chart_type_pipeline.run", "plot_pipeline.run">>

C9_WitnessFull ==
    /\ pc = "done"
    /\ TaskSteps = TaskOrder

GraphOrder ==
    <<"_store_df_info", "_compose_imports_code", "_dashboard_plan", "_build_dashboard",
      "_generate_dashboard_code">>

GraphRunning == g_at \in Nodes

(* C10: a run of the dashboard graph starts at store_dataset_info and      *)
(* executes the nodes in the order store_dataset_info, compose_imports,    *)
(* plan_dashboard, build_dashboard, generate_code, each once, then END; no *)
(* node has two outgoing edges; a started run ends at END or by a raise.   *)
C10_GraphLinearOrder ==
    /\ [](/\ Len(g_visited) <= Len(GraphOrder)
          /\ g_visited = SubSeq(GraphOrder, 1, Len(g_visited))
          /\ GraphRunning => g_at = GraphOrder[Len(g_visited) + 1]
          /\ g_at = END => g_visited = GraphOrder
          /\ (g_at = "raised" /\ g_exc = "NodeError") => g_visited # <<>>
          /\ \A n \in Nodes : Cardinality(Succ(n)) <= 1)
    /\ (GraphRunning ~> (g_at = END \/ g_exc # None))

C10_Witness ==
    /\ g_at = END
    /\ Len(dfs) = 2
    /\ Len(messages) = 4

IsPrefix(a, b) == Len(a) <= Len(b) /\ SubSeq(b, 1, Len(a)) = a

(* C11: each node updates only the state keys it owns (store_dataset_info: *)
(* df_metadata; compose_imports and generate_code: messages;               *)
(* plan_dashboard: dashboard_plan; build_dashboard: dashboard) and leaves  *)
(* every other key unchanged; during a run no key that was set is unset,   *)
(* no df_metadata entry is removed, and every earlier message history is a *)
(* prefix of every later one.                                              *)
C11_NodeFrames ==
    /\ [](GraphRunning \/ g_at = END => IsPrefix(messages0, messages))
    /\ [][GraphRunning =>
            /\ IsPrefix(messages, messages')
            /\ DOMAIN df_metadata \subseteq DOMAIN df_metadata'
            /\ dfs' = dfs
            /\ dashboard_plan # None => dashboard_plan' = dashboard_plan
            /\ dashboard # None => dashboard' = dashboard
            /\ g_at = "_store_df_info" =>
                   UNCHANGED <<messages, dfs, dashboard_plan, dashboard>>
            /\ g_at \in {"_compose_imports_code", "_generate_dashboard_code"} =>
                   UNCHANGED <<dfs, df_metadata, dashboard_plan, dashboard>>
            /\ g_at = "_dashboard_plan" =>
                   UNCHANGED <<messages, dfs, df_metadata, dashboard>>
            /\ g_at = "_build_dashboard" =>
                   UNCHANGED <<messages, dfs, df_metadata, dashboard_plan>>]_vars

C11_Witness ==
    /\ g_at = END
    /\ messages0 # <<>>
    /\ Len(messages) > Len(messages0)
    /\ DOMAIN df_metadata0 # {}
    /\ DOMAIN df_metadata # DOMAIN df_metadata0
    /\ dashboard_plan # None
    /\ dashboard # None

InvalidDfs(d) == ~d.is_list \/ \E k \in DOMAIN d.items : d.items[k] = NotADataFrame

StoreDone == g_visited # <<>> /\ (g_at = "raised" => Len(g_visited) > 1)

(* s lowercased, then each maximal run of non-word characters replaced by  *)
(* one "_": the first character of a run becomes "_", the rest are dropped.*)
Collapsed(s) ==
    LET low == [k \in 1..Len(s) |-> IF s[k] \in DOMAIN ToLower THEN ToLower[s[k]] ELSE s[k]]
        marked == [k \in 1..Len(s) |->
                     IF low[k] \notin NonWordChars THEN low[k]
                     ELSE IF k > 1 /\ low[k - 1] \in NonWordChars THEN "drop" ELSE "_"]
        keep(c) == c # "drop"
    IN  SelectSeq(marked, keep)

(* key is s without its leading and trailing "_" characters. *)
IsStripOf(key, s) ==
    /\ key = <<>> \/ (key[1] # "_" /\ key[Len(key)] # "_")
    /\ \E i, j \in 0..Len(s) :
          /\ i + j <= Len(s)
          /\ key = SubSeq(s, i + 1, Len(s) - j)
          /\ \A k \in 1..i : s[k] = "_"
          /\ \A k \in (Len(s) - j + 1)..Len(s) : s[k] = "_"

IsSanitizedOf(key, dataset_name) ==
    /\ IsStripOf(key, Collapsed(dataset_name))
    /\ \A k \in DOMAIN key : key[k] \notin NonWordChars /\ key[k] \notin DOMAIN ToLower

GlobalDemographicsKey ==
    <<"g", "l", "o", "b", "a", "l", "_", "d", "e", "m", "o", "g", "r", "a", "p", "h", "i", "c", "s">>

(* C13: for every dataset name the oracle returned, the key recorded in    *)
(* df_metadata is the name lowercased, every run of non-word characters    *)
(* collapsed to one "_", without leading or trailing "_"; the name         *)
(* "Global Demographics!!" is recorded under "global_demographics".        *)
C13_SanitizedKeys ==
    StoreDone =>
        /\ Len(current_df_names) = Len(dfs)
        /\ \A k \in DOMAIN current_df_names :
              /\ \E key \in DOMAIN df_metadata : IsSanitizedOf(key, current_df_names[k])
              /\ current_df_names[k] = GlobalDemographics =>
                    GlobalDemographicsKey \in DOMAIN df_metadata
        /\ \A key \in DOMAIN df_metadata \ DOMAIN df_metadata0 :
              \E k \in DOMAIN current_df_names : IsSanitizedOf(key, current_df_names[k])

C13_Witness ==
    /\ StoreDone
    /\ Len(current_df_names) = 2
    /\ current_df_names[1] = GlobalDemographics
    /\ current_df_names[2] = <<"a", "_", " ", "!", "b">>
    /\ DOMAIN df_metadata = {GlobalDemographicsKey, <<"a", "_", "_", "b">>}

ComponentClasses == {GetDebugger, GetCodeExplanation}

(* Objects of class cls instantiated so far by VizroAI instance i, and by  *)
(* all instances of the process.                                           *)
InstantiatedBy(i, cls) ==
    IF cls \in DOMAIN components_instances[i] THEN components_instances[i][cls].nth ELSE 0

InstantiatedInProcess(cls) == InstantiatedBy("A", cls) + InstantiatedBy("B", cls)

(* C14 as stated: in a process each component class is instantiated at    *)
(* most once, whatever VizroAI instances make the calls.                   *)
C14_OncePerProcess ==
    \A cls \in ComponentClasses : InstantiatedInProcess(cls) <= 1

(* C14: for each VizroAI instance, a component class is instantiated on    *)
(* its first use by that instance and at most once; every later use by     *)
(* that instance gets the same object; the instance's cache only grows.    *)
(* Two VizroAI instances of one process hold separate caches.              *)
C14_OncePerInstance ==
    /\ [](\A i \in Instances : \A cls \in DOMAIN components_instances[i] :
            /\ cls \in ComponentClasses
            /\ InstantiatedBy(i, cls) = 1
            /\ components_instances[i][cls].llm = model[i])
    /\ []((pc # "idle" /\ Invoked("_debug_helper")) =>
            GetDebugger \in DOMAIN components_instances[self])
    /\ []((pc # "idle" /\ Invoked("GetCodeExplanation.run")) =>
            GetCodeExplanation \in DOMAIN components_instances[self])
    /\ [][/\ (\A i \in Instances : \A cls \in DOMAIN components_instances[i] :
                 /\ cls \in DOMAIN components_instances'[i]
                 /\ components_instances'[i][cls] = components_instances[i][cls])
           /\ (components_instances' # components_instances =>
                 /\ pc \in {"get_debugger", "debug_done"}
                 /\ \A j \in Instances \ {self} :
                       components_instances'[j] = components_instances[j])]_vars

(* A later use: the instance's debugger is used in a call made after the   *)
(* call that created its explanation component.                            *)
C14_Witness ==
    /\ pc = "debug_exec"
    /\ self = "A"
    /\ trace[Len(trace)] = "_debug_helper"
    /\ DOMAIN components_instances["A"] = ComponentClasses
    /\ DOMAIN components_instances["B"] = ComponentClasses
    /\ model["A"] # model["B"]

InitReturned == entry = "__init__" /\ pc \in {"idle", "raised"}

(* C15: a model name string that is not a key of PREDEFINED_MODELS raises  *)
(* ValueError with a message naming the model and no wrapper is            *)
(* constructed; a missing model yields ChatOpenAI(gpt-3.5-turbo,           *)
(* temperature 0); a ChatOpenAI object is returned unchanged; a known name *)
(* is constructed with that name's wrapper class.                          *)
C15_ModelResolution ==
    InitReturned =>
        /\ (model_arg.kind = "str" /\ model_arg.model_name \notin DOMAIN PREDEFINED_MODELS) =>
              /\ pc = "raised"
              /\ exception = "ValueError"
              /\ Contains(exc_msg, <<model_arg.model_name>>)
              /\ llm_model = NoLlm
        /\ model_arg.kind = "NoneType" =>
              /\ exception = None
              /\ llm_model = [wrapper |-> "ChatOpenAI", model_name |-> "gpt-3.5-turbo",
                              temperature |-> 0, made_by |-> "_get_llm_model"]
        /\ model_arg.kind = "ChatOpenAI" =>
              /\ exception = None
              /\ llm_model = [wrapper |-> "ChatOpenAI", model_name |-> model_arg.model_name,
                              temperature |-> model_arg.temperature, made_by |-> "caller"]
        /\ (model_arg.kind = "str" /\ model_arg.model_name \in DOMAIN PREDEFINED_MODELS) =>
              /\ exception = None
              /\ llm_model.wrapper = PREDEFINED_MODELS[model_arg.model_name]
              /\ llm_model.model_name = model_arg.model_name
              /\ llm_model.made_by = "_get_llm_model"

(* Nodes of the current run that ran to completion. *)
Completed ==
    IF g_at = "raised" /\ g_visited # <<>>
    THEN SubSeq(g_visited, 1, Len(g_visited) - 1)
    ELSE g_visited

HasCompleted(n) == \E k \in DOMAIN Completed : Completed[k] = n

(* C16: compose_imports appends one assistant message, the import          *)
(* statement; generate_code appends exactly one assistant message whose    *)
(* text is composed from that import statement, read as the last message,  *)
(* and the serialized dashboard; after a complete run messages is the      *)
(* initial history followed by exactly these two assistant messages.       *)
C16_TwoAssistantMessages ==
    LET n == Len(messages0)
        added == (IF HasCompleted("_compose_imports_code") THEN 1 ELSE 0)
                 + (IF HasCompleted("_generate_dashboard_code") THEN 1 ELSE 0)
    IN  (GraphRunning \/ g_visited # <<>>) =>
          /\ Len(messages) = n + added
          /\ SubSeq(messages, 1, n) = messages0
          /\ HasCompleted("_compose_imports_code") =>
                /\ messages[n + 1][1] = "assistant"
                /\ messages[n + 1][2] \in ImportStatements
          /\ HasCompleted("_generate_dashboard_code") =>
                messages[n + 2] =
                    <<"assistant",
                      <<"\n">> \o messages[n + 1][2] \o
                      <<"\ndashboard=", dict_obj(dashboard),
                        "\n\nVizro().build(dashboard).run()\n">>>>
          /\ g_at = END => added = 2

C16_Witness ==
    /\ g_at = END
    /\ Len(messages0) = 2
    /\ Len(messages) = 4
    /\ dashboard = "dash_b"
    /\ Contains(messages[4][2], <<dict_obj("dash_b")>>)

(* Parameters of kind positional-or-keyword that have no bound argument. *)
UnboundPositional ==
    {p \in ParamNames : ParamKind[p] = POSITIONAL_OR_KEYWORD /\ p \notin DOMAIN cc_bound}

Overridden(bound, kwargs) ==
    [n \in DOMAIN bound \cup DOMAIN kwargs |->
        IF n \in DOMAIN kwargs THEN kwargs[n] ELSE bound[n]]

(* C17: a call with keyword arguments runs the function with the bound     *)
(* arguments overridden by those keywords for that call only and leaves    *)
(* the stored bound arguments unchanged, so that a later __getitem__       *)
(* returns the value bound at construction or by the last __setitem__; a   *)
(* call with both positional and keyword arguments raises ValueError, and  *)
(* a call with more positional arguments than there are unbound            *)
(* positional-or-keyword parameters raises TypeError, both without         *)
(* running the function.                                                   *)
C17_CallLeavesBoundArguments ==
    /\ [](cc_op = "__call__" =>
            /\ (cc_args # <<>> /\ cc_kwargs # <<>>) =>
                  cc_exc = "ValueError" /\ ~cc_ran
            /\ (cc_args # <<>> /\ cc_kwargs = <<>>
                  /\ Len(cc_args) > Cardinality(UnboundPositional)) =>
                  cc_exc = "TypeError" /\ ~cc_ran
            /\ (cc_args = <<>> /\ cc_ran) =>
                  cc_ran_with = Overridden(cc_bound, cc_kwargs)
            /\ (cc_args = <<>> /\ cc_kwargs # <<>>
                  /\ DOMAIN cc_bound \cup DOMAIN cc_kwargs = ParamNames) =>
                  cc_ran /\ cc_exc = None)
    /\ [](cc_op = "__getitem__" /\ cc_exc = None => cc_ret = cc_bound[cc_key])
    /\ [](cc_op = "__setitem__" => cc_bound[cc_key] = cc_args[1])
    /\ [][(cc_op' = "__call__" => cc_bound' = cc_bound)
           /\ (cc_bound' # cc_bound => cc_op' \in {"__init__", "__setitem__"})]_vars

C17_Witness ==
    /\ cc_op = "__call__"
    /\ cc_args = <<>>
    /\ cc_ran
    /\ \E n \in DOMAIN cc_kwargs \cap DOMAIN cc_bound :
          cc_kwargs[n] # cc_bound[n] /\ cc_ran_with[n] = cc_kwargs[n]

PipelineSteps == {"chart_type_pipeline.run", "plot_pipeline.run"}
ComponentSteps == {"_debug_helper", "GetCodeExplanation.run"}

(* C18: the pipeline manager is one object shared by all VizroAI           *)
(* instances and its llm is the model of the most recently constructed     *)
(* instance; the chart-type and code-generation stages of any instance run *)
(* with that model, while the debug and explanation components of an       *)
(* instance run with the instance's own model.                             *)
C18_SharedPipelineModel ==
    /\ last_constructed = None => pipeline_manager_llm = None
    /\ last_constructed # None => pipeline_manager_llm = model[last_constructed]
    /\ \A k \in DOMAIN trace :
          /\ trace[k] \in PipelineSteps => stage_llm[k] = model[last_constructed]
          /\ trace[k] \in ComponentSteps => stage_llm[k] = model[self]

C18_Witness ==
    /\ self = "A"
    /\ last_constructed = "B"
    /\ model["A"] # model["B"]
    /\ \A step \in PipelineSteps \cup ComponentSteps : Invoked(step)
    /\ \A k \in DOMAIN trace :
          /\ trace[k] \in PipelineSteps => stage_llm[k] = model["B"]
          /\ trace[k] \in ComponentSteps => stage_llm[k] = model["A"]

(* The datasets of the run whose name sanitizes to key, by list position. *)
WritersOf(key) == {k \in DOMAIN current_df_names : DfId(current_df_names[k]) = key}

LastWriterOf(key) == CHOOSE k \in WritersOf(key) : \A j \in WritersOf(key) : j <= k

(* C19: the datasets are processed in list order; when two datasets, or a  *)
(* dataset and an entry already in df_metadata, sanitize to the same key,  *)
(* the later one's schema and sample replace the earlier entry; the number *)
(* of entries after the node is at most the number before plus the number  *)
(* of datasets.                                                            *)
C19_LastWriteWins ==
    StoreDone =>
        /\ DOMAIN df_metadata =
              DOMAIN df_metadata0 \cup {DfId(current_df_names[k]) : k \in DOMAIN current_df_names}
        /\ \A key \in DOMAIN df_metadata :
              IF WritersOf(key) # {}
              THEN df_metadata[key] = _get_df_info(dfs[LastWriterOf(key)])
              ELSE df_metadata[key] = df_metadata0[key]
        /\ Cardinality(DOMAIN df_metadata) <= Cardinality(DOMAIN df_metadata0) + Len(dfs)

(* Two different datasets collide with each other and with a pre-existing  *)
(* entry: one entry is left, fewer than the datasets, holding the second   *)
(* dataset.                                                                *)
C19_Witness ==
    /\ g_at = END
    /\ Len(dfs) = 2
    /\ dfs[1] # dfs[2]
    /\ DOMAIN df_metadata0 # {}
    /\ Cardinality(DOMAIN df_metadata) = 1
    /\ Cardinality(DOMAIN df_metadata) < Len(dfs)
    /\ \A key \in DOMAIN df_metadata :
          /\ WritersOf(key) = {1, 2}
          /\ df_metadata[key] = _get_df_info(dfs[2])
          /\ df_metadata[key] # df_metadata0[key]

(* C20: _get_chart_code never raises DebugFailure: it runs the tasks with  *)
(* the default retry budget 3 and explain false, never invokes the         *)
(* explanation component or a display step, and returns the code string of *)
(* the run as its result, which on retry exhaustion is the                 *)
(* sentinel-prefixed string.                                               *)
C20_GetChartCodeReturnsSentinel ==
    entry = "_get_chart_code" =>
        /\ exception # "DebugFailure"
        /\ ~explain
        /\ max_debug_retry = 3
        /\ Invoked("_debug_helper") => dbg_budget = 3
        /\ ~Invoked("GetCodeExplanation.run")
        /\ pc # "explain"
        /\ \A d \in DisplaySteps : ~Invoked(d)
        /\ pc = "done" =>
              /\ ret = [type |-> "str", text |-> validated_code_dict.code_string]
              /\ exception = None
        /\ (LoopReturned /\ ~validated_code_dict.debug_status) =>
              /\ pc \in {"debug_done", "tasks_return", "done"}
              /\ StartsWith(validated_code_dict.code_string, <<Sentinel>>)

C20_Witness ==
    /\ entry = "_get_chart_code"
    /\ pc = "done"
    /\ exception = None
    /\ fix_calls = 3
    /\ ret.type = "str"
    /\ StartsWith(ret.text, <<Sentinel>>)

ShowSteps == {"_exec_code", "_display_markdown_and_chart"}

TimesShown == TimesInvoked("_exec_code") + TimesInvoked("_display_markdown_and_chart")

(* C21: a plot call that returns has invoked exactly one of _exec_code     *)
(* (explain false) and _display_markdown_and_chart (explain true), on the  *)
(* code the debug loop reported as valid; _display_markdown_and_chart is   *)
(* invoked only after the explanation oracle ran in the same call, and is  *)
(* given its two texts, never the None placeholders.                       *)
C21_OneDisplayStep ==
    /\ TimesShown <= 1
    /\ TimesShown = 1 =>
          /\ entry = "plot"
          /\ validated_code_dict.debug_status
          /\ disp_args.code = validated_code_dict.code_string
          /\ ~StartsWith(disp_args.code, <<Sentinel>>)
          /\ explain <=> Invoked("_display_markdown_and_chart")
          /\ ~explain <=> Invoked("_exec_code")
    /\ (entry = "plot" /\ pc = "done") => TimesShown = 1
    /\ \A k \in DOMAIN trace :
          trace[k] = "_display_markdown_and_chart" =>
             /\ \E j \in 1..(k - 1) : trace[j] = "GetCodeExplanation.run"
             /\ disp_args.fn = "_display_markdown_and_chart"
             /\ disp_args.biz_insights \in Insights
             /\ disp_args.code_explain \in Explanations

C21_Witness ==
    /\ entry = "plot"
    /\ pc = "done"
    /\ explain
    /\ fix_calls = 1
    /\ Invoked("_display_markdown_and_chart")
    /\ disp_args.biz_insights \in Insights
    /\ disp_args.code = candidates[1]

MissingTarget == <<"CapturedCallable object must contain the key '_target_'">>

(* C22: _parse_json removes the key "_target_" from the caller's dict      *)
(* object and leaves its other items; a second validation of the same dict *)
(* object raises ValueError for the missing "_target_" although the first  *)
(* one succeeded; an object that is not a dict is returned as it is and is *)
(* not changed.                                                            *)
C22_ParseJsonMutatesInput ==
    /\ (config0.kind = "dict" /\ TargetKey \in DOMAIN config0.items) =>
          /\ pj_calls = 0 => captured_callable_config = config0
          /\ pj_calls >= 1 =>
                /\ captured_callable_config.kind = "dict"
                /\ DOMAIN captured_callable_config.items = DOMAIN config0.items \ {TargetKey}
                /\ \A k \in DOMAIN captured_callable_config.items :
                      captured_callable_config.items[k] = config0.items[k]
          /\ (pj_calls = 1 /\ config0.items[TargetKey] \in Importable) =>
                /\ pj_exc = None
                /\ pj_ret.kind = "CapturedCallable"
          /\ pj_calls >= 2 =>
                /\ pj_exc = "ValueError"
                /\ pj_msg = MissingTarget
    /\ config0.kind \in {"CapturedCallable", "_SupportsCapturedCallable"} =>
          /\ captured_callable_config = config0
          /\ pj_calls >= 1 => (pj_exc = None /\ pj_ret = config0)

C22_Witness ==
    /\ pj_calls = 2
    /\ config0.kind = "dict"
    /\ DOMAIN config0.items = {TargetKey, "x", "y"}
    /\ config0.items[TargetKey] \in Importable
    /\ DOMAIN captured_callable_config.items = {"x", "y"}
    /\ pj_exc = "ValueError"
    /\ pj_msg = MissingTarget
=============================================================================
